---------------------------- MODULE Spec2Model ----------------------------
(***************************************************************************)
(* A model of the job-match tool pipeline (src/tools/*.py).                *)
(*                                                                         *)
(* Every tool takes and returns Python strings.  Strings are TLA+ strings  *)
(* (Len, SubSeq and \o act on them character by character), JSON texts     *)
(* are parsed and written character by character by Loads and Dumps, and   *)
(* the Python values a parse yields are tagged records [t, v]:             *)
(*   null, bool, int, float, nan, inf, str, list, dict.                    *)
(* A float is held as an integer count of 10^-FracDigits units.            *)
(* A dict is the sequence of its [k, v] items in insertion order.          *)
(* A call that returns r is [raised |-> FALSE, val |-> r]; a call that     *)
(* ends in an uncaught exception is Raise.                                 *)
(***************************************************************************)
EXTENDS Integers, Sequences, FiniteSets, TLC

VARIABLES
    resume_profile_json,  \* the orchestrator's current candidate payload
    job_profile_json,     \* the orchestrator's current job payload
    match_result_json,    \* the orchestrator's current match payload
    email_text,           \* the email text the orchestrator hands to log_run
    op,                   \* the tool called last ("init" before any call)
    args,                 \* the arguments of that call
    ret,                  \* what that call returned, or Raise
    store,                \* the contents of runs_log.jsonl
    runs,                 \* the log_run calls made so far
    proc                  \* the run processes that are inside log_run at
                          \* the same time: where each is, and its file buffer

vars == <<resume_profile_json, job_profile_json, match_result_json,
          email_text, op, args, ret, store, runs, proc>>

---------------------------------------------------------------------------
(* Bounds of the model.                                                    *)

\* Decimal places a float carries (0.79999 needs five).
FracDigits == 5
\* Longest generated required-skill list of a job profile.
MaxJobSkills == 2
\* log_run calls one behaviour makes.
MaxRuns == 2
\* Run processes that log at the same time.
NumProcs == 2
\* Times the system takes only a part of what one process hands it to write.
MaxShortWrites == 1

---------------------------------------------------------------------------
(* A local variable: Bind(e, LAMBDA x : body) is body with x naming the    *)
(* value of e, which is worked out once.                                   *)

Bind(x, F(_)) == F(x)

---------------------------------------------------------------------------
(* Python str.                                                             *)

RECURSIVE Pow10(_)
Pow10(n) == IF n = 0 THEN 1 ELSE 10 * Pow10(n - 1)

Scale == Pow10(FracDigits)

\* The i-th character of s, "" past its end.
Ch(s, i) == IF i >= 1 /\ i <= Len(s) THEN SubSeq(s, i, i) ELSE ""

\* s[i:] (1-based i).
From(s, i) == SubSeq(s, i, Len(s))

\* The printable ASCII characters in code-point order, after tab and newline
\* (the grave accent, which a TLA+ string cannot hold, is left out).
Ascii == "\t\n !\"#$%&'()*+,-./0123456789:;<=>?@ABCDEFGHIJKLMNOPQRSTUVWXYZ[\\]^_abcdefghijklmnopqrstuvwxyz{|}~"

AsciiChars == { Ch(Ascii, i) : i \in 1..Len(Ascii) }

\* Code-point rank of a character.
Ord == [c \in AsciiChars |-> CHOOSE i \in 1..Len(Ascii) : Ch(Ascii, i) = c]

UpperCase == "ABCDEFGHIJKLMNOPQRSTUVWXYZ"
LowerCase == "abcdefghijklmnopqrstuvwxyz"

LowerOf == [c \in AsciiChars |->
              IF \E i \in 1..26 : Ch(UpperCase, i) = c
              THEN Ch(LowerCase, CHOOSE i \in 1..26 : Ch(UpperCase, i) = c)
              ELSE c]

\* str.lower(), a half of the string at a time.
RECURSIVE Lower(_)
Lower(s) ==
    IF Len(s) = 0 THEN ""
    ELSE IF Len(s) = 1 THEN LowerOf[s]
    ELSE Lower(SubSeq(s, 1, Len(s) \div 2)) \o Lower(SubSeq(s, Len(s) \div 2 + 1, Len(s)))

\* The characters str.strip() removes.
IsSpace(c) == c \in {" ", "\t", "\n"}

RECURSIVE LStrip(_)
LStrip(s) == IF s # "" /\ IsSpace(Head(s)) THEN LStrip(Tail(s)) ELSE s

RECURSIVE RStrip(_)
RStrip(s) ==
    IF s # "" /\ IsSpace(Ch(s, Len(s))) THEN RStrip(SubSeq(s, 1, Len(s) - 1)) ELSE s

\* str.strip()
Strip(s) == RStrip(LStrip(s))

\* a < b for str: code-point lexicographic order.
RECURSIVE StrLess(_, _)
StrLess(a, b) ==
    IF b = "" THEN FALSE
    ELSE IF a = "" THEN TRUE
    ELSE IF Head(a) = Head(b) THEN StrLess(Tail(a), Tail(b))
    ELSE Ord[Head(a)] < Ord[Head(b)]

\* sub in text
Contains(text, sub) ==
    \E i \in 1..(Len(text) - Len(sub) + 1) : SubSeq(text, i, i + Len(sub) - 1) = sub

\* sorted(S) for a set of str.
RECURSIVE Sorted(_)
Sorted(S) ==
    IF S = {} THEN <<>>
    ELSE LET m == CHOOSE x \in S : \A y \in S : y = x \/ StrLess(x, y)
         IN  <<m>> \o Sorted(S \ {m})

\* sep.join(xs) for a sequence of str.
RECURSIVE Join(_, _)
Join(sep, xs) ==
    IF xs = <<>> THEN ""
    ELSE IF Len(xs) = 1 THEN xs[1]
    ELSE xs[1] \o sep \o Join(sep, Tail(xs))

\* xs[:n]
Take(xs, n) == SubSeq(xs, 1, IF Len(xs) < n THEN Len(xs) ELSE n)

Range(xs) == { xs[i] : i \in 1..Len(xs) }

---------------------------------------------------------------------------
(* Python values.                                                          *)

Null == [t |-> "null", v |-> 0]
Bool(b) == [t |-> "bool", v |-> b]
IntV(n) == [t |-> "int", v |-> n]
\* The float n / Scale.
Float(n) == [t |-> "float", v |-> n]
NaN == [t |-> "nan", v |-> 0]
\* float("inf") for sign 1, float("-inf") for sign -1.
Inf(sign) == [t |-> "inf", v |-> sign]
Str(s) == [t |-> "str", v |-> s]
List(xs) == [t |-> "list", v |-> xs]
Dict(items) == [t |-> "dict", v |-> items]

\* A list of str.
StrList(xs) == List([i \in 1..Len(xs) |-> Str(xs[i])])

\* A returned value, and an uncaught exception.
Return(x) == [raised |-> FALSE, val |-> x]
Raise == [raised |-> TRUE, val |-> ""]

HasKey(d, k) == \E i \in 1..Len(d.v) : d.v[i].k = k

\* d[k] for a key d holds.
Lookup(d, k) == d.v[CHOOSE i \in 1..Len(d.v) : d.v[i].k = k].v

\* dict.get(k, default)
Get(d, k, default) == IF HasKey(d, k) THEN Lookup(d, k) ELSE default

\* d[k] = x on the item sequence: a key d holds keeps its place.
DictPut(items, k, x) ==
    IF \E i \in 1..Len(items) : items[i].k = k
    THEN [i \in 1..Len(items) |->
             IF items[i].k = k THEN [k |-> k, v |-> x] ELSE items[i]]
    ELSE Append(items, [k |-> k, v |-> x])

\* bool(x): what `x or default` and `if x` test.
Truthy(x) ==
    CASE x.t = "null" -> FALSE
      [] x.t = "bool" -> x.v
      [] x.t \in {"int", "float"} -> x.v # 0
      [] x.t \in {"nan", "inf"} -> TRUE
      [] x.t = "str" -> x.v # ""
      [] x.t \in {"list", "dict"} -> x.v # <<>>

\* x or default
OrElse(x, default) == IF Truthy(x) THEN x ELSE default

---------------------------------------------------------------------------
(* Numbers as text.                                                        *)

Digits == "0123456789"
IsDigit(c) == c # "" /\ Contains(Digits, c)
DigitVal(c) == (CHOOSE i \in 1..10 : Ch(Digits, i) = c) - 1

RECURSIVE NatOf(_, _)
\* The number a digit string denotes, acc being the digits read so far.
NatOf(s, acc) == IF s = "" THEN acc ELSE NatOf(Tail(s), 10 * acc + DigitVal(Head(s)))

RECURSIVE NatStr(_)
NatStr(n) == IF n < 10 THEN Ch(Digits, n + 1)
             ELSE NatStr(n \div 10) \o Ch(Digits, (n % 10) + 1)

Abs(n) == IF n < 0 THEN -n ELSE n

\* str(n) for an int.
IntStr(n) == IF n < 0 THEN "-" \o NatStr(-n) ELSE NatStr(n)

RECURSIVE ZeroPad(_, _)
ZeroPad(s, width) == IF Len(s) >= width THEN s ELSE ZeroPad("0" \o s, width)

RECURSIVE StripZeros(_)
StripZeros(s) == IF s # "" /\ Ch(s, Len(s)) = "0"
                 THEN StripZeros(SubSeq(s, 1, Len(s) - 1)) ELSE s

\* repr(x) for a finite float held as n: the shortest decimal, with at least
\* one place (no float of the model is small or large enough for an exponent).
FloatRepr(n) ==
    Bind(StripZeros(ZeroPad(NatStr(Abs(n) % Scale), FracDigits)), LAMBDA frac :
        (IF n < 0 THEN "-" ELSE "") \o NatStr(Abs(n) \div Scale) \o "."
        \o (IF frac = "" THEN "0" ELSE frac))

\* A fraction's digits as a count of 10^-FracDigits units.
FracOf(s) ==
    IF Len(s) >= FracDigits THEN NatOf(SubSeq(s, 1, FracDigits), 0)
    ELSE NatOf(s, 0) * Pow10(FracDigits - Len(s))

\* Round num/den to the nearest integer, a tie going to the even one.
RoundHalfEven(num, den) ==
    LET q == num \div den
        r == num % den
    IN  IF 2 * r < den THEN q
        ELSE IF 2 * r > den THEN q + 1
        ELSE IF q % 2 = 0 THEN q ELSE q + 1

\* round(num / den, places) as a float, for places <= FracDigits.
RoundTo(num, den, places) ==
    RoundHalfEven(num * Pow10(places), den) * Pow10(FracDigits - places)

\* format(x, ".2f") for a finite float held as n (a decimal tie, which the
\* binary float decides in Python, goes to the even neighbour here).
Fixed2(n) ==
    Bind(RoundHalfEven(Abs(n), Pow10(FracDigits - 2)), LAMBDA h :
        (IF n < 0 THEN "-" ELSE "")
        \o NatStr(h \div 100) \o "." \o ZeroPad(NatStr(h % 100), 2))

---------------------------------------------------------------------------
(* json.loads: the standard decoder, character by character.               *)

\* A parse that failed, and one that read value x and stopped before pos.
NoParse == [ok |-> FALSE, val |-> Null, pos |-> 0]
Parsed(x, pos) == [ok |-> TRUE, val |-> x, pos |-> pos]

RECURSIVE SkipWs(_, _)
\* The first position from i on that holds no JSON whitespace.
SkipWs(s, i) == IF Ch(s, i) \in {" ", "\t", "\n"} THEN SkipWs(s, i + 1) ELSE i

RECURSIVE DigitsEnd(_, _)
\* The first position from i on that holds no digit.
DigitsEnd(s, i) == IF IsDigit(Ch(s, i)) THEN DigitsEnd(s, i + 1) ELSE i

\* The character an escape letter denotes, "" for none.  (\b, \f, \r and
\* \uXXXX denote characters outside Ascii; no text of the model holds them.)
Unescape(c) ==
    CASE c = "\"" -> "\""
      [] c = "\\" -> "\\"
      [] c = "/" -> "/"
      [] c = "n" -> "\n"
      [] c = "t" -> "\t"
      [] OTHER -> ""

RECURSIVE FirstStop(_, _, _)
\* The first position of lo..hi that holds a quote, a backslash or a control
\* character, hi + 1 if none does (the lower half is searched first).
FirstStop(s, lo, hi) ==
    IF lo > hi THEN hi + 1
    ELSE IF lo = hi
    THEN (IF Ch(s, lo) \in {"\"", "\\", "\t", "\n"} THEN lo ELSE hi + 1)
    ELSE Bind(FirstStop(s, lo, (lo + hi) \div 2), LAMBDA l :
             IF l <= (lo + hi) \div 2 THEN l
             ELSE FirstStop(s, (lo + hi) \div 2 + 1, hi))

\* The end of the chunk of ordinary characters that starts at i.
ChunkEnd(s, i) == FirstStop(s, i, Len(s))

RECURSIVE ScanString(_, _, _)
\* py_scanstring: the string literal whose opening quote is just before i;
\* acc is its text so far.  It is read a chunk of ordinary characters at a
\* time, each ended by the closing quote or an escape; a raw control
\* character or the end of the text inside it is an error.
ScanString(s, i, acc) ==
    Bind(ChunkEnd(s, i), LAMBDA e :
    Bind(acc \o SubSeq(s, i, e - 1), LAMBDA text :
        CASE Ch(s, e) = "\"" -> Parsed(text, e + 1)
          [] Ch(s, e) = "\\" ->
               Bind(Unescape(Ch(s, e + 1)), LAMBDA c :
                   IF c = "" THEN NoParse ELSE ScanString(s, e + 2, text \o c))
          [] OTHER -> NoParse))

\* A number at i: -?(0|[1-9][0-9]*)(\.[0-9]+)? (no text of the model
\* carries an exponent or more than FracDigits decimal places).
ScanNumber(s, i) ==
    Bind(IF Ch(s, i) = "-" THEN -1 ELSE 1, LAMBDA sign :
    Bind(IF sign < 0 THEN i + 1 ELSE i, LAMBDA j :
    Bind(IF Ch(s, j) = "0" THEN j + 1 ELSE DigitsEnd(s, j), LAMBDA intEnd :
    Bind(NatOf(SubSeq(s, j, intEnd - 1), 0), LAMBDA whole :
        IF intEnd = j THEN NoParse
        ELSE IF Ch(s, intEnd) = "." /\ IsDigit(Ch(s, intEnd + 1))
        THEN Bind(DigitsEnd(s, intEnd + 1), LAMBDA fracEnd :
                 Parsed(Float(sign * (whole * Scale
                                      + FracOf(SubSeq(s, intEnd + 1, fracEnd - 1)))),
                        fracEnd))
        ELSE Parsed(IntV(sign * whole), intEnd)))))

StartsWith(s, i, word) ==
    i + Len(word) - 1 <= Len(s) /\ SubSeq(s, i, i + Len(word) - 1) = word

RECURSIVE ParseValue(_, _)
RECURSIVE ParseArray(_, _, _)
RECURSIVE ParseObject(_, _, _)

\* scan_once: the value that starts at i.
ParseValue(s, i) ==
    Bind(Ch(s, i), LAMBDA c :
        CASE c = "\"" ->
               Bind(ScanString(s, i + 1, ""), LAMBDA r :
                   IF r.ok THEN Parsed(Str(r.val), r.pos) ELSE NoParse)
          [] c = "{" ->
               Bind(SkipWs(s, i + 1), LAMBDA j :
                   IF Ch(s, j) = "}" THEN Parsed(Dict(<<>>), j + 1)
                   ELSE ParseObject(s, j, <<>>))
          [] c = "[" ->
               Bind(SkipWs(s, i + 1), LAMBDA j :
                   IF Ch(s, j) = "]" THEN Parsed(List(<<>>), j + 1)
                   ELSE ParseArray(s, j, <<>>))
          [] c = "n" /\ StartsWith(s, i, "null") -> Parsed(Null, i + 4)
          [] c = "t" /\ StartsWith(s, i, "true") -> Parsed(Bool(TRUE), i + 4)
          [] c = "f" /\ StartsWith(s, i, "false") -> Parsed(Bool(FALSE), i + 5)
          [] IsDigit(c) \/ (c = "-" /\ IsDigit(Ch(s, i + 1))) -> ScanNumber(s, i)
          [] c = "N" /\ StartsWith(s, i, "NaN") -> Parsed(NaN, i + 3)
          [] c = "I" /\ StartsWith(s, i, "Infinity") -> Parsed(Inf(1), i + 8)
          [] c = "-" /\ StartsWith(s, i, "-Infinity") -> Parsed(Inf(-1), i + 9)
          [] OTHER -> NoParse)

\* JSONArray: the items from i on, acc being those read so far.
ParseArray(s, i, acc) ==
    Bind(ParseValue(s, i), LAMBDA x :
        IF ~x.ok THEN NoParse
        ELSE Bind(SkipWs(s, x.pos), LAMBDA j :
                 IF Ch(s, j) = "]" THEN Parsed(List(Append(acc, x.val)), j + 1)
                 ELSE IF Ch(s, j) = ","
                 THEN ParseArray(s, SkipWs(s, j + 1), Append(acc, x.val))
                 ELSE NoParse))

\* JSONObject: the members from i on, acc being those read so far.  A key
\* given twice keeps its last value.
ParseObject(s, i, acc) ==
    Bind(ScanString(s, i + 1, ""), LAMBDA key :
        IF Ch(s, i) # "\"" \/ ~key.ok THEN NoParse
        ELSE Bind(SkipWs(s, key.pos), LAMBDA colon :
        IF Ch(s, colon) # ":" THEN NoParse
        ELSE Bind(ParseValue(s, SkipWs(s, colon + 1)), LAMBDA x :
        IF ~x.ok THEN NoParse
        ELSE Bind(SkipWs(s, x.pos), LAMBDA j :
        Bind(DictPut(acc, key.val, x.val), LAMBDA items :
            IF Ch(s, j) = "}" THEN Parsed(Dict(items), j + 1)
            ELSE IF Ch(s, j) = "," THEN ParseObject(s, SkipWs(s, j + 1), items)
            ELSE NoParse)))))

\* json.loads(s): ok is FALSE where it raises (JSONDecodeError).
Loads(s) ==
    Bind(ParseValue(s, SkipWs(s, 1)), LAMBDA x :
        IF x.ok /\ SkipWs(s, x.pos) = Len(s) + 1 THEN x ELSE NoParse)

---------------------------------------------------------------------------
(* json.dumps, str() and repr().                                           *)

RECURSIVE EscapeJson(_)
\* The body of a JSON string literal, a half of the string at a time.
EscapeJson(s) ==
    IF Len(s) = 0 THEN ""
    ELSE IF Len(s) = 1
    THEN CASE s = "\"" -> "\\\""
           [] s = "\\" -> "\\\\"
           [] s = "\n" -> "\\n"
           [] s = "\t" -> "\\t"
           [] OTHER -> s
    ELSE EscapeJson(SubSeq(s, 1, Len(s) \div 2))
         \o EscapeJson(SubSeq(s, Len(s) \div 2 + 1, Len(s)))

RECURSIVE Spaces(_)
Spaces(n) == IF n = 0 THEN "" ELSE " " \o Spaces(n - 1)

RECURSIVE DumpsAt(_, _, _)
\* The JSON text of x.  indent < 0 is json.dumps(x): items after ", " and
\* keys before ": ".  indent >= 0 is json.dumps(x, indent=indent): every
\* item of a non-empty list or dict on a line of its own, depth levels in.
DumpsAt(x, indent, depth) ==
    LET open == IF indent < 0 THEN "" ELSE "\n" \o Spaces(indent * (depth + 1))
        sep == IF indent < 0 THEN ", " ELSE "," \o open
        close == IF indent < 0 THEN "" ELSE "\n" \o Spaces(indent * depth)
    IN  CASE x.t = "null" -> "null"
          [] x.t = "bool" -> IF x.v THEN "true" ELSE "false"
          [] x.t = "int" -> IntStr(x.v)
          [] x.t = "float" -> FloatRepr(x.v)
          [] x.t = "nan" -> "NaN"
          [] x.t = "inf" -> IF x.v > 0 THEN "Infinity" ELSE "-Infinity"
          [] x.t = "str" -> "\"" \o EscapeJson(x.v) \o "\""
          [] x.t = "list" ->
               IF x.v = <<>> THEN "[]"
               ELSE "[" \o open
                    \o Join(sep, [i \in 1..Len(x.v) |-> DumpsAt(x.v[i], indent, depth + 1)])
                    \o close \o "]"
          [] x.t = "dict" ->
               IF x.v = <<>> THEN "{}"
               ELSE "{" \o open
                    \o Join(sep, [i \in 1..Len(x.v) |->
                                    "\"" \o EscapeJson(x.v[i].k) \o "\": "
                                    \o DumpsAt(x.v[i].v, indent, depth + 1)])
                    \o close \o "}"

\* json.dumps(x)
Dumps(x) == DumpsAt(x, -1, 0)

\* json.dumps(x, indent=2)
DumpsIndent2(x) == DumpsAt(x, 2, 0)

RECURSIVE EscapeRepr(_, _)
\* The body of repr() of a str quoted with quote, a half at a time.
EscapeRepr(s, quote) ==
    IF Len(s) = 0 THEN ""
    ELSE IF Len(s) = 1
    THEN CASE s = quote -> "\\" \o quote
           [] s = "\\" -> "\\\\"
           [] s = "\n" -> "\\n"
           [] s = "\t" -> "\\t"
           [] OTHER -> s
    ELSE EscapeRepr(SubSeq(s, 1, Len(s) \div 2), quote)
         \o EscapeRepr(SubSeq(s, Len(s) \div 2 + 1, Len(s)), quote)

\* repr(s) for a str: single quotes, unless s holds one and no double quote.
ReprStr(s) ==
    IF Contains(s, "'") /\ ~Contains(s, "\"")
    THEN "\"" \o EscapeRepr(s, "\"") \o "\""
    ELSE "'" \o EscapeRepr(s, "'") \o "'"

RECURSIVE Repr(_)
\* repr(x)
Repr(x) ==
    CASE x.t = "null" -> "None"
      [] x.t = "bool" -> IF x.v THEN "True" ELSE "False"
      [] x.t = "int" -> IntStr(x.v)
      [] x.t = "float" -> FloatRepr(x.v)
      [] x.t = "nan" -> "nan"
      [] x.t = "inf" -> IF x.v > 0 THEN "inf" ELSE "-inf"
      [] x.t = "str" -> ReprStr(x.v)
      [] x.t = "list" ->
           "[" \o Join(", ", [i \in 1..Len(x.v) |-> Repr(x.v[i])]) \o "]"
      [] x.t = "dict" ->
           "{" \o Join(", ", [i \in 1..Len(x.v) |->
                                ReprStr(x.v[i].k) \o ": " \o Repr(x.v[i].v)])
           \o "}"

\* str(x), which is also what an f-string writes for {x}.
PyStr(x) == IF x.t = "str" THEN x.v ELSE Repr(x)

---------------------------------------------------------------------------
(* Iteration, slicing and joining of a Python value.  ok is FALSE where    *)
(* Python raises (TypeError, AttributeError).                              *)

Ok(x) == [ok |-> TRUE, val |-> x]
Err == [ok |-> FALSE, val |-> <<>>]

\* for e in x: the items of a list, the characters of a str, the keys of a
\* dict; any other value is not iterable.
IterOf(x) ==
    CASE x.t = "list" -> Ok(x.v)
      [] x.t = "str" -> Ok([i \in 1..Len(x.v) |-> Str(Ch(x.v, i))])
      [] x.t = "dict" -> Ok([i \in 1..Len(x.v) |-> Str(x.v[i].k)])
      [] OTHER -> Err

\* x[:n]: a list or a str; any other value cannot be sliced.
SliceOf(x, n) ==
    CASE x.t = "list" -> Ok(List(Take(x.v, n)))
      [] x.t = "str" -> Ok(Str(Take(x.v, n)))
      [] OTHER -> Err

\* sep.join(x): x iterable, every item a str.
JoinOf(sep, x) ==
    Bind(IterOf(x), LAMBDA it :
        IF it.ok /\ \A i \in 1..Len(it.val) : it.val[i].t = "str"
        THEN Ok(Join(sep, [i \in 1..Len(it.val) |-> it.val[i].v]))
        ELSE Err)

\* sep.join(x[:n])
JoinSlice(sep, x, n) ==
    Bind(SliceOf(x, n), LAMBDA slice :
        IF slice.ok THEN JoinOf(sep, slice.val) ELSE Err)

\* try: json.loads(s) / except Exception: {}
LoadsOrEmpty(s) == Bind(Loads(s), LAMBDA x : IF x.ok THEN x.val ELSE Dict(<<>>))

---------------------------------------------------------------------------
(* tools/resume_tools.py and tools/job_tools.py.  The texts of the model   *)
(* are over Ascii, where "\n" is the one line boundary str.splitlines()    *)
(* knows and " ", "\t", "\n" the whitespace \s and str.strip() know.       *)

COMMON_SKILLS ==
    <<"java", "python", "c++", "c#", "javascript", "typescript",
      "react", "angular", "spring", "spring boot", "django", "flask",
      "aws", "azure", "gcp", "kubernetes", "docker", "sql", "mongodb",
      "rest", "microservices", "graphql", "kafka", "spark">>

\* The least member of a non-empty set of positions.
Least(S) == CHOOSE i \in S : \A j \in S : i <= j

\* The position of the first "\n" from i on, Len(s) + 1 if there is none.
LineEnd(s, i) == Least({ j \in i..Len(s) : Ch(s, j) = "\n" } \cup {Len(s) + 1})

RECURSIVE FirstNonEmptyLine(_, _, _)
\* for line in text.splitlines(): line = line.strip(); if line: return line
\* over the lines from position i on; default when the loop ends.
FirstNonEmptyLine(text, i, default) ==
    IF i > Len(text) THEN default
    ELSE Bind(LineEnd(text, i), LAMBDA e :
         Bind(Strip(SubSeq(text, i, e - 1)), LAMBDA line :
             IF line # "" THEN line ELSE FirstNonEmptyLine(text, e + 1, default)))

\* _extract_name
extract_name(resume_text) == FirstNonEmptyLine(resume_text, 1, "Unknown Candidate")

RECURSIVE SkipSpace(_, _)
\* \s*: the first position from i on that holds no whitespace.
SkipSpace(s, i) == IF IsSpace(Ch(s, i)) THEN SkipSpace(s, i + 1) ELSE i

\* A word of the pattern at i under re.IGNORECASE.
MatchWord(s, i, word) ==
    i + Len(word) - 1 <= Len(s) /\ Lower(SubSeq(s, i, i + Len(word) - 1)) = word

RECURSIVE LabelEnd(_, _, _)
\* word\s*word\s*...[:\-] at i: the position after the separator, 0 when
\* the text does not match there.
LabelEnd(text, i, words) ==
    IF words = <<>> THEN (IF Ch(text, i) \in {":", "-"} THEN i + 1 ELSE 0)
    ELSE IF MatchWord(text, i, Head(words))
    THEN LabelEnd(text, SkipSpace(text, i + Len(Head(words))), Tail(words))
    ELSE 0

RECURSIVE LastInLine(_, _, _)
\* The last position of j..hi that holds no "\n", 0 if there is none.
LastInLine(text, j, hi) ==
    IF hi < j THEN 0
    ELSE IF Ch(text, hi) # "\n" THEN hi
    ELSE LastInLine(text, j, hi - 1)

\* \s*(.+) at j: where the group starts, 0 when there is no match.  \s*
\* takes all the whitespace it can and gives back only what .+ needs: when
\* the whitespace runs to the end of the text, the group starts at the last
\* character that is no line break.
GroupStart(text, j) ==
    Bind(SkipSpace(text, j), LAMBDA k :
        IF k <= Len(text) THEN k ELSE LastInLine(text, j, Len(text)))

\* \s*...[:\-]\s*(.+) tried at i: where group 1 starts, 0 when the pattern
\* does not match there.
GroupAt(text, words, i) ==
    Bind(LabelEnd(text, i, words), LAMBDA j :
        IF j = 0 THEN 0 ELSE GroupStart(text, j))

\* re.search(r"word\s*...[:\-]\s*(.+)", text, flags=re.IGNORECASE): group 1
\* of the leftmost match, Err when nothing matches.
Search(text, words) ==
    Bind({ i \in 1..Len(text) : GroupAt(text, words, i) # 0 }, LAMBDA starts :
        IF starts = {} THEN Err
        ELSE Bind(GroupAt(text, words, Least(starts)), LAMBDA g :
                 Ok(SubSeq(text, g, LineEnd(text, g) - 1))))

\* _extract_role_title without the search for the 'Job Title:' label (the
\* mutation C13 must detect).
extract_role_title_first_line(job_text) ==
    FirstNonEmptyLine(job_text, 1, "Unknown Role")

\* _extract_role_title
extract_role_title(job_text) ==
    Bind(Search(job_text, <<"job", "title">>), LAMBDA m :
        IF m.ok THEN Strip(m.val)
        ELSE FirstNonEmptyLine(job_text, 1, "Unknown Role"))

\* _extract_location
extract_location(job_text) ==
    Bind(Search(job_text, <<"location">>), LAMBDA m :
        IF m.ok THEN Strip(m.val) ELSE "Not specified")

RECURSIVE Dedup(_, _, _)
\* for s in found: if s not in seen: seen.add(s); result.append(s)
Dedup(found, seen, result) ==
    IF found = <<>> THEN result
    ELSE IF Head(found) \in seen THEN Dedup(Tail(found), seen, result)
    ELSE Dedup(Tail(found), seen \cup {Head(found)}, Append(result, Head(found)))

\* for skill in COMMON_SKILLS: if skill in lowered: found.append(skill)
Found(lowered) == SelectSeq(COMMON_SKILLS, LAMBDA skill : Contains(lowered, skill))

\* _extract_skills with the text taken as written, not lower-cased (the
\* mutation C12 must detect).
extract_skills_as_written(resume_text) == Dedup(Found(resume_text), {}, <<>>)

\* _extract_skills
extract_skills(resume_text) == Dedup(Found(Lower(resume_text)), {}, <<>>)

\* _extract_required_skills
extract_required_skills(job_text) == Dedup(Found(Lower(job_text)), {}, <<>>)

\* parse_resume(resume_text)
parse_resume(resume_text) ==
    Return(DumpsIndent2(Dict(<<
        [k |-> "name", v |-> Str(extract_name(resume_text))],
        [k |-> "skills", v |-> StrList(extract_skills(resume_text))],
        [k |-> "raw_text", v |-> Str(resume_text)]>>)))

\* parse_job_description(job_text)
parse_job_description(job_text) ==
    Return(DumpsIndent2(Dict(<<
        [k |-> "role_title", v |-> Str(extract_role_title(job_text))],
        [k |-> "location", v |-> Str(extract_location(job_text))],
        [k |-> "required_skills", v |-> StrList(extract_required_skills(job_text))],
        [k |-> "raw_text", v |-> Str(job_text)]>>)))

---------------------------------------------------------------------------
(* tools/match_tools.py                                                    *)

SKILL_VOCAB ==
    <<"java", "python", "javascript", "typescript", "c", "c++", "sql",
      "html", "css", "react", "angular", "vue", "spring",
      "spring boot", "django", "flask", "fastapi", "node.js", "nodejs",
      "express", "mongodb", "postgresql", "mysql", "docker",
      "kubernetes", "aws", "gcp", "azure", "rest", "restful",
      "graphql">>

\* _extract_skills_from_text
extract_skills_from_text(text) ==
    Bind(Lower(text), LAMBDA t :
        Sorted({ skill \in Range(SKILL_VOCAB) : Contains(t, skill) }))

\* _ensure_resume_profile without the isinstance test: whatever decodes is
\* returned (the mutation C11 must detect).
ensure_resume_profile_any_json(value) ==
    Bind(Loads(value), LAMBDA obj :
        IF obj.ok THEN obj.val
        ELSE Dict(<<[k |-> "raw_text", v |-> Str(value)],
                    [k |-> "skills", v |-> StrList(extract_skills_from_text(value))]>>))

\* _ensure_resume_profile
ensure_resume_profile(value) ==
    Bind(Loads(value), LAMBDA obj :
        IF obj.ok /\ obj.val.t = "dict" THEN obj.val
        ELSE Dict(<<[k |-> "raw_text", v |-> Str(value)],
                    [k |-> "skills", v |-> StrList(extract_skills_from_text(value))]>>))

\* _ensure_job_profile
ensure_job_profile(value) ==
    Bind(Loads(value), LAMBDA obj :
        IF obj.ok /\ obj.val.t = "dict" THEN obj.val
        ELSE Dict(<<[k |-> "raw_text", v |-> Str(value)],
                    [k |-> "required_skills",
                     v |-> StrList(extract_skills_from_text(value))]>>))

\* [s.lower() for s in skills]: skills iterable, every item a str.
LowerEach(skills) ==
    Bind(IterOf(skills), LAMBDA it :
        IF it.ok /\ \A i \in 1..Len(it.val) : it.val[i].t = "str"
        THEN Ok([i \in 1..Len(it.val) |-> Lower(it.val[i].v)])
        ELSE Err)

\* overlap = sorted(list(resume_set & job_set))
Overlap(resume_set, job_set) == Sorted(resume_set \cap job_set)

\* Missing with the subtraction of resume_set left out (the mutation C1 must
\* detect).
MissingAll(resume_set, job_set) == Sorted(job_set)

\* missing = sorted(list(job_set - resume_set))
Missing(resume_set, job_set) == Sorted(job_set \ resume_set)

\* Score cut to 3 decimal places instead of rounded (the mutation C2 must
\* detect).
ScoreTruncated(overlap, job_set) ==
    IF job_set # {}
    THEN ((Len(overlap) * 1000) \div Cardinality(job_set)) * Pow10(FracDigits - 3)
    ELSE 0

\* round(score, 3) of the score of lines 129-132.
Score(overlap, job_set) ==
    IF job_set # {} THEN RoundTo(Len(overlap), Cardinality(job_set), 3) ELSE 0

\* {xs if xs else 'none'} in the explanation.
ListOrNone(xs) == IF xs # <<>> THEN Repr(StrList(xs)) ELSE "none"

\* The explanation of lines 134-138.
MatchExplanation(overlap, missing, job_set) ==
    "Matched " \o IntStr(Len(overlap)) \o " out of " \o IntStr(Cardinality(job_set))
    \o " required skills. Overlap: " \o ListOrNone(overlap)
    \o ". Missing: " \o ListOrNone(missing) \o "."

\* compute_match(resume_profile_json, job_profile_json)
compute_match(r, j) ==
    Bind(LowerEach(Get(ensure_resume_profile(r), "skills", List(<<>>))),
         LAMBDA resume_skills :
    Bind(LowerEach(Get(ensure_job_profile(j), "required_skills", List(<<>>))),
         LAMBDA job_skills :
        IF ~resume_skills.ok \/ ~job_skills.ok THEN Raise
        ELSE Bind(Range(resume_skills.val), LAMBDA resume_set :
             Bind(Range(job_skills.val), LAMBDA job_set :
             Bind(Overlap(resume_set, job_set), LAMBDA overlap :
             Bind(Missing(resume_set, job_set), LAMBDA missing :
                 Return(DumpsIndent2(Dict(<<
                     [k |-> "score", v |-> Float(Score(overlap, job_set))],
                     [k |-> "overlapping_skills", v |-> StrList(overlap)],
                     [k |-> "missing_skills", v |-> StrList(missing)],
                     [k |-> "explanation",
                      v |-> Str(MatchExplanation(overlap, missing, job_set))]>>)))))))))

---------------------------------------------------------------------------
(* tools/improved_tools.py: validate_match_output                          *)

\* float(s) for a str: surrounding whitespace dropped, an optional sign,
\* then inf, infinity or nan in any case, or digits with an optional point
\* (no str of the model carries an exponent or an underscore).
FloatOfStr(s) ==
    Bind(Strip(s), LAMBDA t :
    Bind(IF Ch(t, 1) = "-" THEN -1 ELSE 1, LAMBDA sign :
    Bind(IF Ch(t, 1) \in {"-", "+"} THEN From(t, 2) ELSE t, LAMBDA body :
    Bind(Lower(body), LAMBDA word :
    Bind(DigitsEnd(body, 1), LAMBDA intEnd :
    Bind(IF Ch(body, intEnd) = "." THEN DigitsEnd(body, intEnd + 1) ELSE intEnd,
         LAMBDA fracEnd :
    Bind(SubSeq(body, 1, intEnd - 1), LAMBDA whole :
    Bind(IF fracEnd > intEnd THEN SubSeq(body, intEnd + 1, fracEnd - 1) ELSE "",
         LAMBDA frac :
        IF word \in {"inf", "infinity"} THEN Ok(Inf(sign))
        ELSE IF word = "nan" THEN Ok(NaN)
        ELSE IF fracEnd = Len(body) + 1 /\ (whole # "" \/ frac # "")
        THEN Ok(Float(sign * (NatOf(whole, 0) * Scale + FracOf(frac))))
        ELSE Err))))))))

\* float(x): ok is FALSE where it raises (TypeError, ValueError).
FloatOf(x) ==
    CASE x.t \in {"float", "nan", "inf"} -> Ok(x)
      [] x.t = "int" -> Ok(Float(x.v * Scale))
      [] x.t = "bool" -> Ok(Float(IF x.v THEN Scale ELSE 0))
      [] x.t = "str" -> FloatOfStr(x.v)
      [] OTHER -> Err

\* a < b for floats: every comparison with nan is False.
FloatLess(a, b) ==
    CASE a.t = "nan" \/ b.t = "nan" -> FALSE
      [] a.t = "inf" /\ b.t = "inf" -> a.v < b.v
      [] a.t = "inf" -> a.v < 0
      [] b.t = "inf" -> b.v > 0
      [] OTHER -> a.v < b.v

\* min(a, b) and max(a, b): a, unless b is smaller (larger).
PyMin(a, b) == IF FloatLess(b, a) THEN b ELSE a
PyMax(a, b) == IF FloatLess(a, b) THEN b ELSE a

\* lines 36-39: float(score), 0.0 where that raises.
ScoreAsFloat(score) == Bind(FloatOf(score), LAMBDA x : IF x.ok THEN x.val ELSE Float(0))

\* Clamp without its lower bound (the mutation C5 must detect).
ClampAbove(score) == PyMin(Float(Scale), score)

\* line 40: max(0.0, min(1.0, score))
Clamp(score) == PyMax(Float(0), PyMin(Float(Scale), score))

\* The condition of the comprehension of lines 46-47: str(s).strip()
KeepSkill(s) == Strip(PyStr(s)) # ""

\* CleanSkill without .lower() (the mutation C6 must detect).
CleanSkillAsWritten(s) == Strip(PyStr(s))

\* The item of the comprehension of lines 46-47: str(s).strip().lower()
CleanSkill(s) == Lower(Strip(PyStr(s)))

\* sorted({str(s).strip().lower() for s in skills if str(s).strip()})
NormalizeSkills(skills) ==
    Bind(IterOf(skills), LAMBDA it :
        IF it.ok
        THEN Ok(Sorted({ CleanSkill(it.val[i]) :
                           i \in { n \in 1..Len(it.val) : KeepSkill(it.val[n]) } }))
        ELSE Err)

\* validate_match_output(match_json_str)
validate_match_output(m) ==
    Bind(LoadsOrEmpty(m), LAMBDA data :
        IF data.t # "dict" THEN Raise
        ELSE
        Bind(Clamp(ScoreAsFloat(Get(data, "score", Float(0)))), LAMBDA score :
        Bind(NormalizeSkills(
                 OrElse(Get(data, "overlapping_skills", List(<<>>)), List(<<>>))),
             LAMBDA overlapping :
        Bind(NormalizeSkills(
                 OrElse(Get(data, "missing_skills", List(<<>>)), List(<<>>))),
             LAMBDA missing :
        Bind(OrElse(Get(data, "explanation", Str("")), Str("")), LAMBDA explanation :
            IF ~overlapping.ok \/ ~missing.ok THEN Raise
            ELSE Return(Dumps(Dict(<<
                     [k |-> "score", v |-> score],
                     [k |-> "overlapping_skills", v |-> StrList(overlapping.val)],
                     [k |-> "missing_skills", v |-> StrList(missing.val)],
                     [k |-> "explanation", v |-> explanation]>>))))))))

---------------------------------------------------------------------------
(* tools/improved_tools.py: the text generators                            *)

\* score >= bound for a float score and the float tenths / 10.
AtLeast(score, tenths) ==
    ~FloatLess(score, Float((tenths * Scale) \div 10)) /\ score.t # "nan"

\* Label with > in place of >= (the mutation C10 must detect).
LabelStrict(score) ==
    IF FloatLess(Float((8 * Scale) \div 10), score) THEN "strong"
    ELSE IF FloatLess(Float((5 * Scale) \div 10), score) THEN "moderate"
    ELSE "limited"

\* lines 103-108
Label(score) ==
    IF AtLeast(score, 8) THEN "strong"
    ELSE IF AtLeast(score, 5) THEN "moderate"
    ELSE "limited"

\* format(x, ".2f") for a float.
FloatFixed2(x) ==
    CASE x.t = "nan" -> "nan"
      [] x.t = "inf" -> IF x.v > 0 THEN "inf" ELSE "-inf"
      [] OTHER -> Fixed2(x.v)

\* ", ".join(x[:n]) if x else default
JoinOrDefault(x, n, default) ==
    IF Truthy(x) THEN JoinSlice(", ", x, n) ELSE Ok(default)

\* explain_match(resume_profile_json, job_profile_json, match_result_json)
explain_match(r, j, m) ==
    Bind(LoadsOrEmpty(r), LAMBDA resume_profile :
    Bind(LoadsOrEmpty(j), LAMBDA job_profile :
    Bind(LoadsOrEmpty(m), LAMBDA match_result :
        IF resume_profile.t # "dict" \/ job_profile.t # "dict" \/ match_result.t # "dict"
        THEN Raise
        ELSE
        Bind(FloatOf(Get(match_result, "score", Float(0))), LAMBDA score :
        Bind(JoinOrDefault(
                 OrElse(Get(match_result, "overlapping_skills", List(<<>>)), List(<<>>)),
                 8, "no clear overlapping skills detected"),
             LAMBDA strengths_str :
        Bind(JoinOrDefault(
                 OrElse(Get(match_result, "missing_skills", List(<<>>)), List(<<>>)),
                 8, "no major skill gaps identified"),
             LAMBDA gaps_str :
            IF ~score.ok \/ ~strengths_str.ok \/ ~gaps_str.ok THEN Raise
            ELSE Return(
            "Overall, " \o PyStr(Get(resume_profile, "name", Str("the candidate"))) \o " appears to be a " \o Label(score.val)
            \o " match for " \o PyStr(Get(job_profile, "role_title", Str("this role"))) \o " with a score of "
            \o FloatFixed2(score.val) \o ". "
            \o "Key overlapping skills include: " \o strengths_str.val \o ". "
            \o "Important skills that are emphasized in the job description but appear weaker or missing in the resume "
            \o "include: " \o gaps_str.val \o ". "
            \o "This suggests that the candidate is well-aligned on several core requirements but could strengthen "
            \o "their profile by gaining or better highlighting experience in the missing areas.")))))))

\* suggest_resume_edits(resume_profile_json, job_profile_json, match_result_json)
suggest_resume_edits(r, j, m) ==
    Bind(LoadsOrEmpty(r), LAMBDA resume_profile :
    Bind(LoadsOrEmpty(j), LAMBDA job_profile :
    Bind(LoadsOrEmpty(m), LAMBDA match_result :
        IF resume_profile.t # "dict" \/ job_profile.t # "dict" \/ match_result.t # "dict"
        THEN Raise
        ELSE
        Bind(OrElse(Get(job_profile, "required_skills", List(<<>>)), List(<<>>)),
             LAMBDA required_skills :
        Bind(OrElse(Get(match_result, "overlapping_skills", List(<<>>)), List(<<>>)),
             LAMBDA overlapping :
        Bind(OrElse(Get(match_result, "missing_skills", List(<<>>)), List(<<>>)),
             LAMBDA missing :
        Bind(JoinOrDefault(overlapping, 10, ""), LAMBDA b1 :
        Bind(JoinOrDefault(missing, 10, ""), LAMBDA b2 :
        Bind(JoinOrDefault(required_skills, 12, ""), LAMBDA b3 :
            IF ~b1.ok \/ ~b2.ok \/ ~b3.ok THEN Raise
            ELSE Return(Join("\n",
            << "Tailoring suggestions for " \o PyStr(Get(resume_profile, "name", Str("you"))) \o " targeting "
               \o PyStr(Get(job_profile, "role_title", Str("this role"))) \o ":",
               "" >>
            \o (IF Truthy(overlapping)
                THEN << "- Highlight these overlapping skills in your summary and skills section, "
                        \o "since they directly match the job requirements:",
                        "  " \o b1.val,
                        "" >>
                ELSE <<>>)
            \o (IF Truthy(missing)
                THEN << "- The job emphasizes the following skills that are weak or missing in your current resume:",
                        "  " \o b2.val,
                        "  If you have any exposure (courses, projects, internships), add bullets explicitly mentioning them.",
                        "" >>
                ELSE <<>>)
            \o (IF Truthy(required_skills)
                THEN << "- Rephrase some existing bullets to mirror key JD terms (without fabricating experience). "
                        \o "Use wording like:",
                        "  Example JD keywords: " \o b3.val,
                        "" >>
                ELSE <<>>)
            \o << "- Add one line in your professional summary explicitly targeting this type of role, "
                  \o "e.g., 'MS CS candidate with hands-on experience in X and Y, targeting roles in Z.'" >>)))))))))))

\* generate_targeted_bullets(resume_profile_json, job_profile_json)
generate_targeted_bullets(r, j) ==
    Bind(LoadsOrEmpty(r), LAMBDA resume_profile :
    Bind(LoadsOrEmpty(j), LAMBDA job_profile :
        IF resume_profile.t # "dict" \/ job_profile.t # "dict" THEN Raise
        ELSE
        Bind(SliceOf(OrElse(Get(job_profile, "required_skills", List(<<>>)), List(<<>>)), 5),
             LAMBDA top_skills :
        IF ~top_skills.ok THEN Raise
        ELSE
        Bind(JoinSlice(", ", top_skills.val, 3), LAMBDA top3 :
        IF Truthy(top_skills.val) /\ ~top3.ok THEN Raise
        ELSE
        Bind(IterOf(top_skills.val).val, LAMBDA top :
        Bind(Get(resume_profile, "name", Str("")), LAMBDA name :
            Return(Join("\n",
            << "Suggested bullets tailored for " \o PyStr(Get(job_profile, "role_title", Str("the role"))) \o ":" >>
            \o (IF Truthy(top_skills.val)
                THEN << "- Designed and implemented features leveraging " \o top3.val \o " "
                        \o "to meet project or course requirements with a focus on reliability and performance." >>
                     \o (IF Len(top) > 1
                         THEN << "- Built end-to-end functionality combining " \o PyStr(top[1])
                                 \o " and " \o PyStr(top[2]) \o " "
                                 \o "in a team setting, using Git-based workflows and code reviews." >>
                         ELSE <<>>)
                ELSE <<>>)
            \o << "- Applied software engineering best practices (version control, testing, CI/CD where applicable) "
                  \o "to keep changes safe and maintainable.",
                  "- Communicated technical decisions and trade-offs clearly to teammates, adapting explanations for "
                  \o "both technical and non-technical collaborators." >>
            \o (IF Truthy(name)
                THEN << "- As " \o PyStr(name)
                        \o ", proactively explored new tools and frameworks relevant to this role and integrated them into projects." >>
                ELSE <<>>)))))))))

---------------------------------------------------------------------------
(* tools/outreach_tools.py                                                 *)

\* format(x, ".2f"): a float, an int or a bool; any other value raises.
Fixed2Of(x) ==
    CASE x.t \in {"float", "nan", "inf"} -> Ok(FloatFixed2(x))
      [] x.t = "int" -> Ok(Fixed2(x.v * Scale))
      [] x.t = "bool" -> Ok(Fixed2(IF x.v THEN Scale ELSE 0))
      [] OTHER -> Err

\* draft_outreach_email(resume_profile_json, job_profile_json, match_result_json)
draft_outreach_email(r, j, m) ==
    Bind(Loads(r), LAMBDA resume_profile :
    Bind(Loads(j), LAMBDA job_profile :
    Bind(Loads(m), LAMBDA match_result :
        IF ~resume_profile.ok \/ ~job_profile.ok \/ ~match_result.ok THEN Raise
        ELSE IF resume_profile.val.t # "dict" \/ job_profile.val.t # "dict"
                \/ match_result.val.t # "dict" THEN Raise
        ELSE
        Bind(Get(resume_profile.val, "name", Str("Candidate")), LAMBDA name :
        Bind(Get(job_profile.val, "role_title", Str("the role")), LAMBDA role :
        Bind(Get(job_profile.val, "location", Str("your team")), LAMBDA location :
        Bind(Get(match_result.val, "overlapping_skills", List(<<>>)), LAMBDA overlapping :
        Bind(Get(match_result.val, "missing_skills", List(<<>>)), LAMBDA missing :
        Bind(IF Truthy(overlapping) THEN JoinOf(", ", overlapping)
             ELSE Ok("relevant experience"),
             LAMBDA overlap_str :
        \* None is held as "": both are false in `if missing_str`.
        Bind(IF Truthy(missing) THEN JoinOf(", ", missing) ELSE Ok(""),
             LAMBDA missing_str :
        Bind(Fixed2Of(Get(match_result.val, "score", Float(0))), LAMBDA score_str :
            IF ~overlap_str.ok \/ ~missing_str.ok \/ ~score_str.ok THEN Raise
            ELSE Return(
            "Subject: Interest in " \o PyStr(role) \o "\n"
            \o "\n"
            \o "Hi,\n"
            \o "\n"
            \o ("I hope you're doing well. My name is " \o PyStr(name)
            \o ", and I'm very interested in the " \o PyStr(role) \o " opportunity"
            \o (IF Truthy(location) /\ location # Str("Not specified")
                THEN " in " \o PyStr(location) ELSE "")
            \o ".")
            \o "\n"
            \o ("From reviewing the job description, I believe my background is a strong match, "
            \o "especially in " \o overlap_str.val \o ".")
            \o "\n"
            \o (IF missing_str.val # ""
            THEN "I'm also excited to grow further in " \o missing_str.val
                 \o ", and I'm actively learning or using "
                 \o "these in my recent projects."
            ELSE "I believe my current skill set already aligns very closely with the listed requirements.")
            \o "\n"
            \o "\n"
            \o ("(Approximate skill match score from my agent: " \o score_str.val \o ").")
            \o "\n"
            \o "\n"
            \o "If you think there could be a fit, I would love the chance to discuss how I can contribute to your team.\n"
            \o "\n"
            \o "Best regards,\n"
            \o PyStr(name) \o "\n"))))))))))))

---------------------------------------------------------------------------
(* tools/improved_tools.py: log_run                                        *)

\* dict.get(k): None for a key the dict does not hold.
GetOrNone(d, k) == Get(d, k, Null)

\* The record of lines 310-319 for the clock reading now; ok is FALSE where
\* building it raises (a payload that decodes to no dict has no .get).
RunRecord(r, j, m, e, now) ==
    Bind(LoadsOrEmpty(r), LAMBDA resume_profile :
    Bind(LoadsOrEmpty(j), LAMBDA job_profile :
    Bind(LoadsOrEmpty(m), LAMBDA match_result :
        IF resume_profile.t # "dict" \/ job_profile.t # "dict" \/ match_result.t # "dict"
        THEN Err
        ELSE Ok(Dict(<<
            [k |-> "timestamp_utc", v |-> Str(now \o "Z")],
            [k |-> "candidate_name", v |-> GetOrNone(resume_profile, "name")],
            [k |-> "role_title", v |-> GetOrNone(job_profile, "role_title")],
            [k |-> "location", v |-> GetOrNone(job_profile, "location")],
            [k |-> "score", v |-> GetOrNone(match_result, "score")],
            [k |-> "overlapping_skills", v |-> GetOrNone(match_result, "overlapping_skills")],
            [k |-> "missing_skills", v |-> GetOrNone(match_result, "missing_skills")],
            [k |-> "email_preview", v |-> Str(Take(e, 300))]>>)))))

log_path == "runs_log.jsonl"

\* The line f.write() is given.
RunLine(record) == Dumps(record) \o "\n"

\* What log_run returns when the write succeeds, and when it fails with e.
Logged == "Run logged to " \o log_path \o "."
NotLogged(e) == "Failed to log run: " \o e

---------------------------------------------------------------------------
(* The payloads the orchestrator starts from.                              *)

RECURSIVE SeqsUpTo(_, _)
\* The sequences over S of length at most n.
SeqsUpTo(S, n) ==
    IF n = 0 THEN {<<>>}
    ELSE LET shorter == SeqsUpTo(S, n - 1)
         IN  shorter \cup { Append(xs, x) : xs \in shorter, x \in S }

\* Candidate payloads: profiles with the fields of parse_resume's that the
\* tools read (skills in any case, repeated, empty), a raw resume text, and
\* payloads an unreliable caller may hand over (no dict, no name, a skills
\* field that is no list).
ResumeInputs ==
    { "{\"name\": \"Jane Doe\", \"skills\": [\"Python\", \"sql\"]}",
      "{\"skills\": [\"python\", \"Python\", \"react\"]}",
      "{\"name\": \"Jane Doe\", \"skills\": []}",
      "Jane Doe\nSkilled in Python, SQL and React.",
      "[]",
      "{\"name\": null, \"skills\": 5}" }

JobSkillPool == {"python", "React", "SQL"}

\* A job profile as parse_job_description writes it.
JobProfile(skills) ==
    DumpsIndent2(Dict(<<
        [k |-> "role_title", v |-> Str("Backend Engineer")],
        [k |-> "location", v |-> Str("Remote")],
        [k |-> "required_skills", v |-> StrList(skills)],
        [k |-> "raw_text", v |-> Str("Job Title: Backend Engineer\nLocation: Remote")]>>))

\* Job payloads: a profile for every short skill list over the pool, the
\* three-skill profile, a profile that names one skill twice, once after a
\* blank, a raw job text, and malformed payloads.
JobInputs ==
    { JobProfile(skills) : skills \in SeqsUpTo(JobSkillPool, MaxJobSkills) }
    \cup { JobProfile(<<"python", "react", "sql">>),
           JobProfile(<<"python", " python">>),
           "Job Title: Backend Engineer\nRequired: Python, SQL, Kafka.",
           "5",
           "{\"location\": \"Not specified\", \"required_skills\": null}" }

\* Match payloads with one field of interest each.
ScoreInputs ==
    { "{\"score\": " \o x \o "}" :
        x \in { "1.5", "-0.2", "\"abc\"", "null", "0.8", "0.79999", "0.5", "0.49999",
                "0.0", "1.0", "1", "2", "-3", "true", "\"0.25\"", "\" 1 \"", "0.667",
                "NaN", "Infinity", "-Infinity", "[1]", "{}" } }

SkillInputs ==
    { "{\"score\": 0.5, \"overlapping_skills\": " \o x \o ", \"missing_skills\": " \o y \o "}" :
        x \in { "[\"Python\", \"python\", \" SQL \"]", "[]", "[\" \", \"\", \"b\", \"A\"]",
                "[1, null, true]", "\"Ab c\"", "null", "5" },
        y \in { "[\"React\"]", "[\"sql\", \"SQL\", 7]", "{\"K\": 1}", "0", "true" } }

ExplanationInputs ==
    { "{\"score\": 0.9, \"explanation\": " \o x \o "}" :
        x \in { "\"Matched 1 out of 1.\"", "\"\"", "null", "5", "0", "false",
                "[\"x\"]", "[]" } }

\* Match payloads: texts that are no JSON or no dict, an empty dict, and the
\* payloads above.
MatchInputs ==
    { "", "not json", "{\"score\": 0.5", "[]", "[0.5]", "5", "null", "\"score\"", "{}" }
    \cup ScoreInputs \cup SkillInputs \cup ExplanationInputs

\* The resume texts of a run: the candidate of the end-to-end scenario, a
\* skill in capitals and one inside a longer word, entries that hold other
\* entries and are found out of alphabetical order, and texts with no skill.
ResumeTexts ==
    { "Jane Doe\nSkilled in Python, SQL, and React.",
      "PYTHON",
      "Python Developer",
      "\n  Sam Lee \nJavaScript, Spring Boot and AWS",
      "No skills listed",
      "" }

\* The job texts of a run: the job of the end-to-end scenario, a job with no
\* title label, a label in small letters with a dash, a label with nothing
\* after it, and an empty text.
JobTexts ==
    { "Job Title: Backend Engineer\nLocation: Remote\nRequired: Python, SQL, Kafka.",
      "Data Engineer\nKafka, Spark and SQL\nlocation - Austin ",
      "We are hiring\njob title - Lead\nNeeds REACT, Docker",
      "Python Developer\nJob Title:",
      "Job Title: \t",
      "" }

DefaultResume == "{\"name\": \"Jane Doe\", \"skills\": [\"Python\", \"sql\"]}"
DefaultJob == JobProfile(<<"python", "react", "sql">>)

\* The readings of datetime.utcnow().isoformat() a call may get.
Clock == { "2024-05-01T12:00:00", "2024-05-01T12:00:01.500000" }

\* str(e) of the OSError open() may raise, and of the one the write may
\* raise when the with block flushes and closes the file.
OpenErrors == { "[Errno 13] Permission denied: 'runs_log.jsonl'" }
WriteErrors == { "[Errno 28] No space left on device" }

---------------------------------------------------------------------------
(* The state machine: the orchestrator calls the tools in any order, and   *)
(* keeps what compute_match and validate_match_output return as its        *)
(* current match payload.                                                  *)

Procs == 1..NumProcs

\* A process that has not called log_run yet.
Idle == [pc |-> "idle", line |-> "", buf |-> "", shorts |-> 0, out |-> Return("")]

Start(r, j, m, e) ==
    /\ proc = [p \in Procs |-> Idle]
    /\ resume_profile_json = r
    /\ job_profile_json = j
    /\ match_result_json = m
    /\ email_text = e
    /\ op = "init"
    /\ args = <<>>
    /\ ret = Return("")
    /\ store = ""
    /\ runs = 0

Init ==
    \/ \E r \in ResumeInputs, j \in JobInputs : Start(r, j, "", "")
    \/ \E m \in MatchInputs : Start(DefaultResume, DefaultJob, m, "")

\* The payloads of a run that is logged: what the pipeline hands over for
\* the default profiles, and payloads that are no JSON or no dict.
DefaultMatch == validate_match_output(compute_match(DefaultResume, DefaultJob).val).val
DefaultEmail == draft_outreach_email(DefaultResume, DefaultJob, DefaultMatch).val

InitLog ==
    \E r \in {DefaultResume, "Jane Doe\nSkilled in Python, SQL and React.", "[]"},
       m \in {DefaultMatch, "not json", "{\"score\": null}"},
       e \in {DefaultEmail, "Hi,\nJane"} :
        Start(r, DefaultJob, m, e)

Called(name, arguments, result) ==
    /\ op' = name
    /\ args' = arguments
    /\ ret' = result

ComputeMatch ==
    /\ Called("compute_match", <<resume_profile_json, job_profile_json>>,
              compute_match(resume_profile_json, job_profile_json))
    /\ match_result_json' = IF ret'.raised THEN match_result_json ELSE ret'.val
    /\ UNCHANGED <<resume_profile_json, job_profile_json, email_text, store, runs, proc>>

ValidateMatchOutput ==
    /\ Called("validate_match_output", <<match_result_json>>,
              validate_match_output(match_result_json))
    /\ match_result_json' = IF ret'.raised THEN match_result_json ELSE ret'.val
    /\ UNCHANGED <<resume_profile_json, job_profile_json, email_text, store, runs, proc>>

ExplainMatch ==
    /\ Called("explain_match",
              <<resume_profile_json, job_profile_json, match_result_json>>,
              explain_match(resume_profile_json, job_profile_json, match_result_json))
    /\ UNCHANGED <<resume_profile_json, job_profile_json, match_result_json,
                   email_text, store, runs, proc>>

SuggestResumeEdits ==
    /\ Called("suggest_resume_edits",
              <<resume_profile_json, job_profile_json, match_result_json>>,
              suggest_resume_edits(resume_profile_json, job_profile_json,
                                   match_result_json))
    /\ UNCHANGED <<resume_profile_json, job_profile_json, match_result_json,
                   email_text, store, runs, proc>>

GenerateTargetedBullets ==
    /\ Called("generate_targeted_bullets",
              <<resume_profile_json, job_profile_json>>,
              generate_targeted_bullets(resume_profile_json, job_profile_json))
    /\ UNCHANGED <<resume_profile_json, job_profile_json, match_result_json,
                   email_text, store, runs, proc>>

DraftOutreachEmail ==
    /\ Called("draft_outreach_email",
              <<resume_profile_json, job_profile_json, match_result_json>>,
              draft_outreach_email(resume_profile_json, job_profile_json,
                                   match_result_json))
    /\ UNCHANGED <<resume_profile_json, job_profile_json, match_result_json,
                   email_text, store, runs, proc>>

ParseResume ==
    /\ \E resume_text \in ResumeTexts :
         Called("parse_resume", <<resume_text>>, parse_resume(resume_text))
    /\ resume_profile_json' = ret'.val
    /\ UNCHANGED <<job_profile_json, match_result_json, email_text, store, runs, proc>>

ParseJobDescription ==
    /\ \E job_text \in JobTexts :
         Called("parse_job_description", <<job_text>>, parse_job_description(job_text))
    /\ job_profile_json' = ret'.val
    /\ UNCHANGED <<resume_profile_json, match_result_json, email_text, store, runs, proc>>

\* log_run: the record is built, then the file is opened for appending and
\* the line written.  open() may fail, leaving the file as it was; the
\* write may fail after the system took none or a part of the line.
LogRun ==
    /\ runs < MaxRuns
    /\ runs' = runs + 1
    /\ op' = "log_run"
    /\ args' = <<resume_profile_json, job_profile_json, match_result_json, email_text>>
    /\ \E now \in Clock :
         \E record \in { RunRecord(resume_profile_json, job_profile_json,
                                   match_result_json, email_text, now) } :
             IF ~record.ok
             THEN ret' = Raise /\ store' = store
             ELSE \E line \in { RunLine(record.val) } :
                  \/ ret' = Return(Logged) /\ store' = store \o line
                  \/ \E e \in OpenErrors :
                       ret' = Return(NotLogged(e)) /\ store' = store
                  \/ \E e \in WriteErrors, n \in {0, Len(line) \div 2} :
                       ret' = Return(NotLogged(e)) /\ store' = store \o SubSeq(line, 1, n)
    /\ UNCHANGED <<resume_profile_json, job_profile_json, match_result_json,
                   email_text, proc>>

(* log_run in several run processes at once.  Each process runs the same *)
(* code on the payloads of its run; the file is the one thing they share. *)
(* A process builds its record, opens the file for appending, hands the   *)
(* line to the file object, which buffers it, and leaves the with block,  *)
(* which flushes the buffer and closes the file.  The flush hands the     *)
(* buffer to the system, which appends what it takes at the end of the    *)
(* file; when it takes only a part, the flush hands over the rest in      *)
(* another write.                                                         *)

\* The payloads are decoded and the record is built (lines 297-319).
BuildRecord(p) ==
    /\ proc[p].pc = "idle"
    /\ \E now \in Clock :
         \E record \in { RunRecord(resume_profile_json, job_profile_json,
                                   match_result_json, email_text, now) } :
             proc' = [proc EXCEPT ![p] =
                        IF record.ok
                        THEN [@ EXCEPT !.pc = "built", !.line = RunLine(record.val)]
                        ELSE [@ EXCEPT !.pc = "done", !.out = Raise]]
    /\ UNCHANGED <<resume_profile_json, job_profile_json, match_result_json,
                   email_text, op, args, ret, store, runs>>

\* open(log_path, "a", encoding="utf-8"), which may fail.
OpenLog(p) ==
    /\ proc[p].pc = "built"
    /\ \/ proc' = [proc EXCEPT ![p].pc = "opened"]
       \/ \E e \in OpenErrors :
            proc' = [proc EXCEPT ![p].pc = "done", ![p].out = Return(NotLogged(e))]
    /\ UNCHANGED <<resume_profile_json, job_profile_json, match_result_json,
                   email_text, op, args, ret, store, runs>>

\* f.write(json.dumps(record) + "\n"): the line goes to the buffer.
WriteLine(p) ==
    /\ proc[p].pc = "opened"
    /\ proc' = [proc EXCEPT ![p].pc = "written", ![p].buf = proc[p].line]
    /\ UNCHANGED <<resume_profile_json, job_profile_json, match_result_json,
                   email_text, op, args, ret, store, runs>>

\* The end of the with block: the system takes all that is in the buffer,
\* and log_run returns 'Run logged to runs_log.jsonl.'
FlushAll(p) ==
    /\ proc[p].pc = "written"
    /\ store' = store \o proc[p].buf
    /\ proc' = [proc EXCEPT ![p].pc = "done", ![p].buf = "",
                            ![p].out = Return(Logged)]
    /\ UNCHANGED <<resume_profile_json, job_profile_json, match_result_json,
                   email_text, op, args, ret, runs>>

\* The system takes a part of the buffer; the flush goes on with the rest.
FlushPart(p) ==
    /\ proc[p].pc = "written"
    /\ proc[p].shorts < MaxShortWrites
    /\ Len(proc[p].buf) >= 2
    /\ store' = store \o SubSeq(proc[p].buf, 1, Len(proc[p].buf) \div 2)
    /\ proc' = [proc EXCEPT ![p].buf = From(proc[p].buf, Len(proc[p].buf) \div 2 + 1),
                            ![p].shorts = proc[p].shorts + 1]
    /\ UNCHANGED <<resume_profile_json, job_profile_json, match_result_json,
                   email_text, op, args, ret, runs>>

\* The system refuses the write: the OSError is caught and log_run returns
\* 'Failed to log run: <error>'.
FlushFails(p) ==
    /\ proc[p].pc = "written"
    /\ \E e \in WriteErrors :
         proc' = [proc EXCEPT ![p].pc = "done", ![p].buf = "",
                             ![p].out = Return(NotLogged(e))]
    /\ UNCHANGED <<resume_profile_json, job_profile_json, match_result_json,
                   email_text, op, args, ret, store, runs>>

Next ==
    \/ ComputeMatch
    \/ ValidateMatchOutput
    \/ ExplainMatch
    \/ SuggestResumeEdits
    \/ GenerateTargetedBullets
    \/ DraftOutreachEmail

\* The logger on its own: log_run called up to MaxRuns times on the payloads
\* of one run.
NextLog == LogRun

\* One run as the orchestrator is asked to make it (steps 1 to 5 of its
\* task): each tool is called on what the tools before it returned.
InitRun == Start("", "", "", "")

NextRun ==
    \/ op = "init" /\ ParseResume
    \/ op = "parse_resume" /\ ParseJobDescription
    \/ op = "parse_job_description" /\ ComputeMatch
    \/ op = "compute_match" /\ ValidateMatchOutput
    \/ op = "validate_match_output" /\ DraftOutreachEmail

\* The payloads of the runs that log at the same time.
InitConc ==
    \E r \in {DefaultResume, "[]"}, e \in {DefaultEmail, "Hi,\nJane"} :
        Start(r, DefaultJob, DefaultMatch, e)

NextConc ==
    \E p \in Procs :
        \/ BuildRecord(p)
        \/ OpenLog(p)
        \/ WriteLine(p)
        \/ FlushAll(p)
        \/ FlushPart(p)
        \/ FlushFails(p)

\* The tools that compute and write texts, called in any order.
Spec == Init /\ [][Next]_vars

\* The run from the two texts to the email.
SpecRun == InitRun /\ [][NextRun]_vars

\* The run processes that log at the same time.
SpecConc == InitConc /\ [][NextConc]_vars

\* The runs log.
SpecLog == InitLog /\ [][NextLog]_vars

---------------------------------------------------------------------------
(* The properties.  Each is stated on the call the machine made last: op   *)
(* is the tool, args the texts it was given and ret what came back.        *)

\* The value a JSON text denotes.
Decoded(text) == Loads(text).val

\* x is a list of str.
IsStrList(x) == x.t = "list" /\ \A i \in 1..Len(x.v) : x.v[i].t = "str"

\* The strings of a list of str.
StrSet(x) == { x.v[i].v : i \in 1..Len(x.v) }

\* text is a profile (a JSON object) whose field k is a list of strings.
HasSkillList(text, k) ==
    /\ Loads(text).ok
    /\ Decoded(text).t = "dict"
    /\ HasKey(Decoded(text), k)
    /\ IsStrList(Lookup(Decoded(text), k))

\* The lowercased skills of field k of a profile.
LoweredSkills(text, k) == { Lower(skill) : skill \in StrSet(Lookup(Decoded(text), k)) }

\* compute_match was called with profiles whose skill fields are lists of
\* strings.
MatchedProfiles ==
    /\ op = "compute_match"
    /\ HasSkillList(args[1], "skills")
    /\ HasSkillList(args[2], "required_skills")

\* A field of the result the last call returned.
ResultField(k) == Get(Decoded(ret.val), k, Null)

\* C1: for profiles whose skill fields are lists of strings, compute_match
\* returns overlapping_skills and missing_skills that partition the job's
\* lowercased required-skill set: together they are that set, and they share
\* no element.
C1_Partition ==
    MatchedProfiles =>
        /\ ~ret.raised
        /\ IsStrList(ResultField("overlapping_skills"))
        /\ IsStrList(ResultField("missing_skills"))
        /\ StrSet(ResultField("overlapping_skills")) \cup StrSet(ResultField("missing_skills"))
               = LoweredSkills(args[2], "required_skills")
        /\ StrSet(ResultField("overlapping_skills")) \cap StrSet(ResultField("missing_skills"))
               = {}

\* A match with skills on both sides of the partition, the job's skills being
\* written in another case than the candidate's.
C1_Witness ==
    /\ MatchedProfiles
    /\ ~ret.raised
    /\ StrSet(ResultField("overlapping_skills")) = {"python", "sql"}
    /\ StrSet(ResultField("missing_skills")) = {"react"}
    /\ "Python" \in StrSet(Lookup(Decoded(args[1]), "skills"))

\* x is k/n rounded to 3 decimal places: a whole number of thousandths, no
\* further than half a thousandth from k/n.
IsRounded3(x, k, n) ==
    /\ x % (Scale \div 1000) = 0
    /\ 2 * Abs(x * n - k * Scale) <= n * (Scale \div 1000)

\* C2: the score compute_match returns is 0.0 when the job's required-skill
\* set is empty, whatever the candidate's skills, and otherwise the number of
\* overlapping skills over the number of distinct lowercased required skills,
\* rounded to 3 decimal places.
C2_Score ==
    MatchedProfiles =>
        LET required == LoweredSkills(args[2], "required_skills")
            held == LoweredSkills(args[1], "skills")
            score == ResultField("score")
        IN  /\ ~ret.raised
            /\ score.t = "float"
            /\ Len(ResultField("overlapping_skills").v) = Cardinality(required \cap held)
            /\ IF required = {} THEN score.v = 0
               ELSE IsRounded3(score.v, Cardinality(required \cap held),
                               Cardinality(required))

\* The candidate {python, sql} against the job {python, react, sql}: overlap
\* {python, sql}, missing {react}, score 0.667.
C2_Witness ==
    /\ MatchedProfiles
    /\ ~ret.raised
    /\ LoweredSkills(args[1], "skills") = {"python", "sql"}
    /\ LoweredSkills(args[2], "required_skills") = {"python", "react", "sql"}
    /\ StrSet(ResultField("overlapping_skills")) = {"python", "sql"}
    /\ StrSet(ResultField("missing_skills")) = {"react"}
    /\ ResultField("score") = Float(667 * (Scale \div 1000))

\* The four keys of a normalized match result.
MatchKeys == {"score", "overlapping_skills", "missing_skills", "explanation"}

\* text is a JSON object with exactly the four keys.
IsMatchResult(text) ==
    /\ Loads(text).ok
    /\ Decoded(text).t = "dict"
    /\ { Decoded(text).v[i].k : i \in 1..Len(Decoded(text).v) } = MatchKeys

\* C3: validate_match_output is total: whatever text it is given (no JSON, a
\* JSON value that is no mapping, a mapping with fields of the wrong type) it
\* returns a normalized match result and never fails.
C3_Total ==
    op = "validate_match_output" => ~ret.raised /\ IsMatchResult(ret.val)

\* validate_match_output returned a result.
Validated == op = "validate_match_output" /\ ~ret.raised

\* C4: validate_match_output is idempotent: for any input, it returns an
\* output, and given that output it returns exactly the same output.
C4_Idempotent ==
    op = "validate_match_output" =>
        ~ret.raised /\ validate_match_output(ret.val) = ret

\* C4 on the inputs for which validate_match_output returns: given its own
\* output, it returns that output.
C4_IdempotentOnOutputs ==
    Validated => validate_match_output(ret.val) = ret

\* A field of the mapping validate_match_output was given, absent for a key
\* it does not hold; a text that is no JSON counts as the empty mapping.
Absent == [t |-> "absent", v |-> 0]
InputField(k) == Get(LoadsOrEmpty(args[1]), k, Absent)

\* C5: the score validate_match_output returns lies in [0.0, 1.0]: a score
\* above 1 becomes 1.0, a score below 0 becomes 0.0, a score that converts to
\* no number, is null or is absent becomes 0.0, and a score in [0.0, 1.0] is
\* returned unchanged.
C5_ScoreClamped ==
    Validated =>
        LET given == InputField("score")
            number == FloatOf(given)
            score == ResultField("score")
        IN  /\ score.t = "float"
            /\ 0 <= score.v /\ score.v <= Scale
            /\ given.t \in {"absent", "null"} => score.v = 0
            /\ ~number.ok => score.v = 0
            /\ number.ok /\ number.val.t = "inf" =>
                   score.v = (IF number.val.v > 0 THEN Scale ELSE 0)
            /\ number.ok /\ number.val.t = "float" =>
                   score.v = (IF number.val.v > Scale THEN Scale
                              ELSE IF number.val.v < 0 THEN 0
                              ELSE number.val.v)

\* The score -0.2 was validated, giving 0.0.
C5_Witness ==
    /\ Validated
    /\ InputField("score") = Float(-((2 * Scale) \div 10))
    /\ ResultField("score") = Float(0)

\* The items `for s in x` yields for the skills field x the validator reads
\* (`data.get(k, []) or []`).
GivenSkills(k) ==
    IterOf(OrElse(Get(LoadsOrEmpty(args[1]), k, List(<<>>)), List(<<>>))).val

\* The trimmed, lowercased, non-empty forms of the given skills.
SkillForms(k) ==
    { Lower(Strip(PyStr(GivenSkills(k)[i]))) : i \in 1..Len(GivenSkills(k)) } \ {""}

\* C6: the overlapping_skills and missing_skills validate_match_output
\* returns are lists in ascending lexicographic order without duplicates, of
\* non-empty, trimmed, lowercase strings: exactly the trimmed, lowercased,
\* non-empty forms of the input's elements.
C6_SkillLists ==
    Validated =>
        \A k \in {"overlapping_skills", "missing_skills"} :
            LET skills == ResultField(k)
            IN  /\ IsStrList(skills)
                /\ \A i \in 1..Len(skills.v) :
                       /\ skills.v[i].v # ""
                       /\ Strip(skills.v[i].v) = skills.v[i].v
                       /\ Lower(skills.v[i].v) = skills.v[i].v
                /\ \A i \in 1..(Len(skills.v) - 1) :
                       StrLess(skills.v[i].v, skills.v[i + 1].v)
                /\ StrSet(skills) = SkillForms(k)

\* ["Python", "python", " SQL "] was validated, giving ["python", "sql"].
C6_Witness ==
    /\ Validated
    /\ InputField("overlapping_skills") = StrList(<<"Python", "python", " SQL ">>)
    /\ ResultField("overlapping_skills") = StrList(<<"python", "sql">>)

\* C7: the output of validate_match_output holds the four keys, and its
\* explanation is a string: "" when the input's explanation is absent or
\* null, the input's explanation when that is a string.
C7_Explanation ==
    Validated =>
        /\ IsMatchResult(ret.val)
        /\ ResultField("explanation").t = "str"
        /\ InputField("explanation").t \in {"absent", "null"} =>
               ResultField("explanation") = Str("")
        /\ InputField("explanation").t = "str" =>
               ResultField("explanation") = InputField("explanation")

\* The tools that write a text from the payloads.
Generators ==
    {"explain_match", "suggest_resume_edits", "generate_targeted_bullets",
     "draft_outreach_email"}

\* C8: no generator raises: whatever texts it is given (texts that are no
\* JSON, mappings with absent fields), each returns a text.
C8_GeneratorsReturn ==
    op \in Generators => ~ret.raised

\* C9: log_run never raises: it returns a status string, which is
\* 'Failed to log run: <reason>' whenever the line did not reach the log
\* store whole.
C9_LogRunReturns ==
    op = "log_run" =>
        /\ ~ret.raised
        /\ \/ ret.val = Logged
           \/ \E e \in OpenErrors \cup WriteErrors : ret.val = NotLogged(e)

\* The label the explanation carries: the one between "appears to be a" and
\* "match for".
Says(label) == Contains(ret.val, " appears to be a " \o label \o " match for ")

\* score < tenths / 10, for a float score that is a number.
Under(score, tenths) ==
    IF score.t = "inf" THEN score.v < 0 ELSE 10 * score.v < tenths * Scale

\* C10: explain_match says 'strong' exactly when the score is >= 0.8,
\* 'moderate' exactly when 0.5 <= score < 0.8 and 'limited' exactly when the
\* score is < 0.5, for every score that is a number.
C10_Labels ==
    op = "explain_match" /\ ~ret.raised =>
        LET score == FloatOf(Get(LoadsOrEmpty(args[3]), "score", Float(0))).val
        IN  score.t # "nan" =>
                /\ Says("strong") <=> ~Under(score, 8)
                /\ Says("moderate") <=> (~Under(score, 5) /\ Under(score, 8))
                /\ Says("limited") <=> Under(score, 5)

\* The score 0.8 was explained as a strong match.
C10_Witness ==
    /\ op = "explain_match"
    /\ ~ret.raised
    /\ Get(LoadsOrEmpty(args[3]), "score", Null) = Float((8 * Scale) \div 10)
    /\ Says("strong")

---------------------------------------------------------------------------
(* The profile normalizers and the text extractor.                         *)

\* text decodes to a mapping.
IsMapping(text) == Loads(text).ok /\ Decoded(text).t = "dict"

\* The keys of a dict.
Keys(d) == { d.v[i].k : i \in 1..Len(d.v) }

\* profile is what a normalizer owes for value: the mapping value decodes
\* to, and for any other value the raw-text profile, which has raw_text
\* equal to value and under k a list of skills that each occur in the
\* lowercased value.
Normalized(profile, value, k) ==
    IF IsMapping(value) THEN profile = Decoded(value)
    ELSE /\ profile.t = "dict"
         /\ Keys(profile) = {"raw_text", k}
         /\ Lookup(profile, "raw_text") = Str(value)
         /\ IsStrList(Lookup(profile, k))
         /\ \A skill \in StrSet(Lookup(profile, k)) : Contains(Lower(value), skill)

\* A payload compute_match can use: no mapping (the raw-text path), or a
\* mapping whose field k is a list of strings.
Usable(text, k) == ~IsMapping(text) \/ HasSkillList(text, k)

\* C11: the normalizers compute_match uses never raise on malformed input:
\* a value that is no JSON, or JSON that decodes to no mapping, gives the
\* raw-text profile (raw_text the value itself, the extracted skills under
\* 'skills' for the candidate and 'required_skills' for the job), a value
\* that decodes to a mapping gives that mapping, and compute_match returns
\* on such payloads.
C11_Normalizers ==
    op = "compute_match" =>
        /\ Normalized(ensure_resume_profile(args[1]), args[1], "skills")
        /\ Normalized(ensure_job_profile(args[2]), args[2], "required_skills")
        /\ Usable(args[1], "skills") /\ Usable(args[2], "required_skills")
               => ~ret.raised

\* compute_match was given a candidate payload that is JSON but no mapping
\* and a job payload that is no JSON, and returned the match of the skills
\* found in the two raw texts.
C11_Witness ==
    /\ op = "compute_match"
    /\ args[1] = "[]"
    /\ ~Loads(args[2]).ok
    /\ ~ret.raised
    /\ Lookup(ensure_resume_profile(args[1]), "raw_text") = Str("[]")
    /\ StrSet(Lookup(ensure_job_profile(args[2]), "required_skills")) # {}
    /\ StrSet(ResultField("missing_skills"))
           = StrSet(Lookup(ensure_job_profile(args[2]), "required_skills"))

\* entry, which is in small letters, occurs in text when the case of the
\* letters of text is ignored.
Occurs(text, entry) ==
    \E i \in 1..(Len(text) - Len(entry) + 1) :
        \A n \in 1..Len(entry) : LowerOf[Ch(text, i + n - 1)] = Ch(entry, n)

\* Where an entry stands in the vocabulary of the text extractor.
VocabularyRank(entry) == CHOOSE i \in 1..Len(COMMON_SKILLS) : COMMON_SKILLS[i] = entry

\* The skill list a parser returned.
ExtractedSkills ==
    ResultField(IF op = "parse_resume" THEN "skills" ELSE "required_skills")

\* C12: for every text, the skill list parse_resume and
\* parse_job_description return is exactly the vocabulary entries that occur
\* in the text as a case-insensitive substring, in vocabulary order and
\* without duplicates; it is the empty list, and no error, when no entry
\* occurs.
C12_Extractor ==
    op \in {"parse_resume", "parse_job_description"} =>
        /\ ~ret.raised
        /\ IsStrList(ExtractedSkills)
        /\ StrSet(ExtractedSkills)
               = { entry \in Range(COMMON_SKILLS) : Occurs(args[1], entry) }
        /\ Cardinality(StrSet(ExtractedSkills)) = Len(ExtractedSkills.v)
        /\ \A i, j \in 1..Len(ExtractedSkills.v) :
               i < j => VocabularyRank(ExtractedSkills.v[i].v)
                            < VocabularyRank(ExtractedSkills.v[j].v)

\* parse_resume found python in the text "PYTHON".
C12_Witness ==
    /\ op = "parse_resume"
    /\ args[1] = "PYTHON"
    /\ ~ret.raised
    /\ ExtractedSkills = StrList(<<"python">>)

\* parse_job_description returned the empty list for a text that holds no
\* entry.
C12_WitnessNone ==
    /\ op = "parse_job_description"
    /\ args[1] = "Job Title: \t"
    /\ ~ret.raised
    /\ ExtractedSkills = StrList(<<>>)

---------------------------------------------------------------------------
(* The run from the two texts to the email.                                *)

\* A field of the payloads the orchestrator holds.
ResumeField(k) == Lookup(Decoded(resume_profile_json), k)
JobField(k) == Lookup(Decoded(job_profile_json), k)
MatchField(k) == Lookup(Decoded(match_result_json), k)

\* The first line of a text.
FirstLine(text) == SubSeq(text, 1, LineEnd(text, 1) - 1)

\* The run has made its five calls: the profiles are those of the two
\* texts, the match is the validated match of the profiles, and the email
\* was drafted from the three.
RunDone == op = "draft_outreach_email"

\* The texts of the end-to-end scenario.
ScenarioResume == "Jane Doe\nSkilled in Python, SQL, and React."
ScenarioJob ==
    "Job Title: Backend Engineer\nLocation: Remote\nRequired: Python, SQL, Kafka."

\* The run was made on the texts of the scenario.
ScenarioRun ==
    /\ RunDone
    /\ ResumeField("raw_text") = Str(ScenarioResume)
    /\ JobField("raw_text") = Str(ScenarioJob)

\* C13: after parse_resume, parse_job_description, compute_match,
\* validate_match_output and draft_outreach_email, called in this order each
\* on the results of the ones before, the validated overlap, missing list
\* and score are those of the two extracted skill sets and the first line of
\* the email is 'Subject: Interest in <role title>'; on the texts of the
\* scenario the candidate's skills are {python, sql, react}, the required
\* ones {python, sql, kafka}, the overlap {python, sql}, the missing {kafka},
\* the score 0.667 and the subject 'Subject: Interest in Backend Engineer'.
C13_Run ==
    RunDone =>
        LET held == StrSet(ResumeField("skills"))
            required == StrSet(JobField("required_skills"))
        IN  /\ ~ret.raised
            /\ StrSet(MatchField("overlapping_skills")) = held \cap required
            /\ StrSet(MatchField("missing_skills")) = required \ held
            /\ MatchField("score").t = "float"
            /\ IF required = {} THEN MatchField("score").v = 0
               ELSE IsRounded3(MatchField("score").v,
                               Cardinality(held \cap required), Cardinality(required))
            /\ FirstLine(ret.val) = "Subject: Interest in " \o JobField("role_title").v
            /\ ScenarioRun =>
                   /\ held = {"python", "sql", "react"}
                   /\ required = {"python", "sql", "kafka"}
                   /\ MatchField("overlapping_skills") = StrList(<<"python", "sql">>)
                   /\ MatchField("missing_skills") = StrList(<<"kafka">>)
                   /\ MatchField("score") = Float(667 * (Scale \div 1000))
                   /\ FirstLine(ret.val) = "Subject: Interest in Backend Engineer"

\* The run on the texts of the scenario reached its email.
C13_Witness ==
    /\ ScenarioRun
    /\ ~ret.raised
    /\ args = <<resume_profile_json, job_profile_json, match_result_json>>
    /\ MatchField("missing_skills") = StrList(<<"kafka">>)
    /\ FirstLine(ret.val) = "Subject: Interest in Backend Engineer"

\* The text a parsed profile was extracted from.
RawText(profile_json) == Lookup(Decoded(profile_json), "raw_text").v

\* C14: the raw-text fallback of the normalizers runs the text extractor:
\* the skill list compute_match derives from a raw text is the list
\* parse_resume (parse_job_description) extracts from it, so compute_match
\* on the two raw texts returns what compute_match on the two parsed
\* profiles returns.
C14_FallbackIsExtractor ==
    op = "compute_match" =>
        /\ Lookup(ensure_resume_profile(RawText(args[1])), "skills")
               = Lookup(Decoded(args[1]), "skills")
        /\ Lookup(ensure_job_profile(RawText(args[2])), "required_skills")
               = Lookup(Decoded(args[2]), "required_skills")
        /\ compute_match(RawText(args[1]), RawText(args[2])) = ret

---------------------------------------------------------------------------
(* The validator after the match engine.                                   *)

\* validate_match_output was called on what compute_match returns for the
\* two profiles the orchestrator holds, whose skill fields are lists of
\* strings.
ValidatedMatch ==
    /\ op = "validate_match_output"
    /\ HasSkillList(resume_profile_json, "skills")
    /\ HasSkillList(job_profile_json, "required_skills")
    /\ args = <<compute_match(resume_profile_json, job_profile_json).val>>

\* C15: the validator keeps the two lists of the match engine disjoint: for
\* profiles whose skill fields are lists of strings, overlapping_skills and
\* missing_skills of validate_match_output(compute_match(candidate, job))
\* have no element in common.
C15_Disjoint ==
    ValidatedMatch =>
        /\ ~ret.raised
        /\ StrSet(ResultField("overlapping_skills"))
               \cap StrSet(ResultField("missing_skills")) = {}

---------------------------------------------------------------------------
(* The run log.                                                            *)

\* What a step put at the end of the store.
Appended == SubSeq(store', Len(store) + 1, Len(store'))

\* The step was a log_run call that returned 'Run logged to ...'.
LoggedStep == op' = "log_run" /\ ~ret'.raised /\ ret'.val = Logged

\* text is one record, ended by the only "\n" it holds, whose email_preview
\* is the first 300 characters of email.
IsRecordLine(text, email) ==
    /\ Len(text) >= 1
    /\ LineEnd(text, 1) = Len(text)
    /\ IsMapping(SubSeq(text, 1, Len(text) - 1))
    /\ Lookup(Decoded(SubSeq(text, 1, Len(text) - 1)), "email_preview")
           = Str(SubSeq(email, 1, IF Len(email) < 300 THEN Len(email) ELSE 300))

\* What was in the store before a step is still there, in the same place.
EarlierRecordsKept ==
    Len(store') >= Len(store) /\ SubSeq(store', 1, Len(store)) = store

\* C16: the run log is append-only over any sequence of log_run calls: a
\* successful call adds exactly one newline-terminated record at the end of
\* the store, whose email_preview is the first 300 characters of the email
\* text; the records written before stay unchanged and in place; and a call
\* that fails to write leaves the store unchanged.
C16_AppendOnly ==
    [][op' = "log_run" =>
          /\ EarlierRecordsKept
          /\ LoggedStep => IsRecordLine(Appended, email_text)
          /\ ~LoggedStep => store' = store]_vars

\* The part of C16 the code keeps: what a call finds in the store stays,
\* and a successful call adds one record line after it.
C16_EarlierRecordsKept ==
    [][op' = "log_run" =>
          /\ EarlierRecordsKept
          /\ LoggedStep => IsRecordLine(Appended, email_text)]_vars

\* A record with a preview cut to 300 characters was added after another
\* record.
C16_Witness ==
    /\ op = "log_run"
    /\ ret = Return(Logged)
    /\ runs = 2
    /\ Len(email_text) > 300
    /\ \E n \in 1..(Len(store) - 1) :
           /\ IsRecordLine(SubSeq(store, 1, n), email_text)
           /\ IsRecordLine(SubSeq(store, n + 1, Len(store)), email_text)

---------------------------------------------------------------------------
(* The run log under several processes.                                    *)

\* Every process has left log_run.
AllDone == \A p \in Procs : proc[p].pc = "done"

\* The processes whose call returned 'Run logged to ...'.
Successful == { p \in Procs : proc[p].out = Return(Logged) }

\* The orders in which the processes of S may have written.
Orders(S) ==
    { order \in [1..Cardinality(S) -> S] :
        \A i, j \in 1..Cardinality(S) : order[i] = order[j] => i = j }

RECURSIVE LinesOf(_)
\* The record lines of the processes of order, one after the other.
LinesOf(order) ==
    IF order = <<>> THEN ""
    ELSE proc[Head(order)].line \o LinesOf(Tail(order))

\* C17: appends to the run log are concurrent-safe: when several processes
\* run log_run at the same time and their calls succeed, every interleaving
\* ends with the store holding one complete, unbroken record line for each
\* call: no record is lost, overwritten, or mixed with the characters of
\* another record.
C17_ConcurrentAppends ==
    AllDone /\ Successful = Procs =>
        \E order \in Orders(Procs) : store = LinesOf(order)

\* The same with calls that failed: the store holds the record lines of the
\* successful calls and nothing else.
C17_WithFailedCalls ==
    AllDone => \E order \in Orders(Successful) : store = LinesOf(order)

\* Two processes logged at the same time and both record lines are in the
\* store, whole and one after the other.
C17_BothLogged ==
    /\ AllDone
    /\ Successful = Procs
    /\ proc[1].line # proc[2].line
    /\ store = proc[2].line \o proc[1].line

===========================================================================
